---- MODULE Spec2Model ----
(***************************************************************************)
(* Banded (sliding-window) attention products of                           *)
(* fast_transformers/local_product/local_product_cuda.cu.                  *)
(*                                                                         *)
(* One call of one of the four public operations is modelled: the host     *)
(* issues the dense matmuls and the kernel launches in program order on    *)
(* one device stream, the device retires them in issue order, and the      *)
(* thread blocks of a tiled kernel run in any order.  A second             *)
(* specification, SpecBlock, follows the threads of one thread block of a  *)
(* tiled kernel through its load / barrier / dot / barrier cycle.          *)
(*                                                                         *)
(* Tensors are functions from index tuples (0-based, as in the source) to  *)
(* integers; float arithmetic is modelled by integer arithmetic, negative  *)
(* infinity by the value NegInf, which no computed value can take.         *)
(***************************************************************************)
EXTENDS Integers, Sequences, FiniteSets

\* ---------------------------------------------------------------- bounds
\* Largest batch size, head count, sequence length and feature size drawn.
MaxN == 2
MaxH == 2
MaxL == 4
MaxE == 3
\* Largest number of cells N*H*L*E of a query/key/value tensor drawn.
MaxElems == 9
\* Template parameter a_blocks of sliding_dot (64 in the source), scaled.
a_blocks == 2
\* Template parameters LB = KB = EB of the tiled kernels (32 in the
\* source, and the literal 32 of their launch configurations), scaled.
TILE == 2

\* ------------------------------------------------------------- constants
\* threads of one block of the selection kernel.
threads == 1024
\* -std::numeric_limits<float>::infinity(), the fill of the forward scores.
NegInf == -1000000

VARIABLES
    call,      \* [op, N, H, L, E, C]: the operation called and its shapes
    args,      \* the input tensors of the call, by parameter name
    outs,      \* the output tensors the call allocated, by name
    buffer,    \* sliding_dot's scratch buffer (N*H, a_blocks, a_blocks+C)
    issued,    \* number of work items the host has put on the stream
    stream,    \* work items issued and not yet retired, in issue order
    bufIter,   \* per scratch cell: l of the matmul that wrote it last, or -1
    outIter,   \* per banded output cell: bufIter of the scratch cell copied, or -1
    writers,   \* per output tensor and cell: the (launch, thread) pairs that wrote it
    blk,       \* SpecBlock: [kernel, b]: the kernel and blockIdx.x of the block followed
    pc,        \* SpecBlock: per thread, its position in the kernel
    kc,        \* SpecBlock: per thread, its loop variable k
    arrived,   \* SpecBlock: per thread, the number of barriers it has reached
    smem,      \* SpecBlock: per shared slot, the k of the store it holds, or -1
    seen       \* SpecBlock: per thread, the set of <<k, slot content>> it read

vars == <<call, args, outs, buffer, issued, stream, bufIter, outIter, writers,
          blk, pc, kc, arrived, smem, seen>>

hostVars == <<call, args, outs, buffer, issued, stream, bufIter, outIter, writers>>
blockVars == <<blk, pc, kc, arrived, smem, seen>>

\* ---------------------------------------------------------------- helpers
ceildiv(a, b) == (a + b - 1) \div b

Max(a, b) == IF a >= b THEN a ELSE b
Min(a, b) == IF a <= b THEN a ELSE b

RECURSIVE SumOver(_, _)
\* Sum of f[x] over the finite set S, S a subset of DOMAIN f.
SumOver(f, S) ==
    IF S = {} THEN 0
    ELSE LET x == CHOOSE y \in S : TRUE
         IN  f[x] + SumOver(f, S \ {x})

\* Index set of a contiguous tensor of the given sizes.
Idx4(d0, d1, d2, d3) == (0..d0-1) \X (0..d1-1) \X (0..d2-1) \X (0..d3-1)
Idx3(d0, d1, d2) == (0..d0-1) \X (0..d1-1) \X (0..d2-1)
Idx2(d0, d1) == (0..d0-1) \X (0..d1-1)

\* Flat offset of a cell of a contiguous rank-4 tensor.
Flat4(i, d1, d2, d3) == ((i[1]*d1 + i[2])*d2 + i[3])*d3 + i[4]

\* t.view({d0*d1, d2, d3}) of a contiguous (d0, d1, d2, d3) tensor: cell
\* (b, l, e) of the view is cell (b / d1, b % d1, l, e) of t.
View3(b, l, e, d1) == <<b \div d1, b % d1, l, e>>

\* Shorthands for the shapes of the call.
N == call.N
H == call.H
L == call.L
E == call.E
C == call.C

\* ------------------------------------------------------------ work items
\* One unit of work on the device stream.  kind is "matmul" (at::matmul_out
\* into the narrowed scratch buffer), "copy" (sliding_dot_copy_kernel),
\* "scaled" (local_copy_scaled) or "transpose" (local_copy_scaled_transpose).
\* a, b name the input tensors (A, B of sliding_dot; factors, values of the
\* tiled kernels), dst the output tensor, policy the copy implementation or
\* the lk_policy; pending holds the thread blocks that have yet to run.
Item(kind, a, b, dst, policy, l, s_start, n_a, n_b, strides, pending) ==
    [id |-> 0, kind |-> kind, a |-> a, b |-> b, dst |-> dst, policy |-> policy,
     l |-> l, s_start |-> s_start, n_a |-> n_a, n_b |-> n_b,
     strides |-> strides, pending |-> pending]

NoStrides == [x |-> 1, y |-> 1, z |-> 1]

\* -------------------------------------------------------- sliding_dot (host)
\* One iteration of sliding_dot's loop: the matmul of the query chunk that
\* starts at l against the keys [s_start, s_end) into buff, then the launch
\* of the selection kernel over buff with ceildiv(buff.numel(), threads)
\* blocks.
sliding_dot_iter_swapped(copy, A, B, out, l) ==
    LET s_start == Max(0, l - C \div 2)
        s_end == Min(L, l - C \div 2 + C + a_blocks)
        n_b == s_end - s_start
        n_a == Min(L - l, a_blocks)
        blocks == ceildiv(N*H*n_a*n_b, threads)
    IN  << Item("copy", A, B, out, copy, l, s_start, n_a, n_b, NoStrides,
                0..blocks-1),
           Item("matmul", A, B, out, copy, l, s_start, n_a, n_b, NoStrides, {}) >>

sliding_dot_iter(copy, A, B, out, l) ==
    LET s_start == Max(0, l - C \div 2)
        s_end == Min(L, l - C \div 2 + C + a_blocks)
        n_b == s_end - s_start
        n_a == Min(L - l, a_blocks)
        blocks == ceildiv(N*H*n_a*n_b, threads)
    IN  << Item("matmul", A, B, out, copy, l, s_start, n_a, n_b, NoStrides, {}),
           Item("copy", A, B, out, copy, l, s_start, n_a, n_b, NoStrides,
                0..blocks-1) >>

RECURSIVE sliding_dot_from(_, _, _, _, _)
\* for (int l=0; l<L; l+=a_blocks): the work the loop issues from l on.
sliding_dot_from(copy, A, B, out, l) ==
    IF l < L
    THEN sliding_dot_iter(copy, A, B, out, l)
         \o sliding_dot_from(copy, A, B, out, l + a_blocks)
    ELSE << >>

\* sliding_dot<a_blocks>(copy_implementation, A, B, out, local_context).
sliding_dot(copy, A, B, out) == sliding_dot_from(copy, A, B, out, 0)

\* The scratch buffer as allocated: A.new_zeros({N, a_blocks, a_blocks+C}),
\* N here being the first size N*H of the views.
BufferDom == Idx3(N*H, a_blocks, a_blocks + C)

\* ------------------------------------------------------ sliding_dot (device)
\* at::matmul_out(buff, A.narrow(1, l, n_a),
\*                B.narrow(1, s_start, n_b).transpose(1, 2)):
\* buff[n][i][j] = sum over e of A[n][l+i][e] * B[n][s_start+j][e], the
\* cells of the buffer outside buff untouched.
matmul_out(it) ==
    [c \in BufferDom |->
        IF c[2] < it.n_a /\ c[3] < it.n_b
        THEN SumOver([e \in 0..E-1 |->
                        args[it.a][View3(c[1], it.l + c[2], e, H)]
                        * args[it.b][View3(c[1], it.s_start + c[3], e, H)]],
                     0..E-1)
        ELSE buffer[c]]

\* Thread idx of the selection kernel with the masked copy implementation:
\* the set of writes it performs (none or one), each a record of the cell of
\* the (N*H, L, C) output view, the value, the scratch cell read and idx.
masked_lp_copy_no_band(idx, it) ==
    LET buffer_dim12 == it.n_a * it.n_b
        buffer_dim2 == it.n_b
        n == idx \div buffer_dim12
        idx1 == idx - n*buffer_dim12
        l_offset == idx1 \div buffer_dim2
        s_offset == idx1 - l_offset*buffer_dim2
        l == it.l + l_offset
        s == it.s_start + s_offset
        k == s - l + C \div 2
    IN  IF n >= N*H THEN {}
        ELSE IF k < 1 \/ k >= C THEN {}
        ELSE {[cell |-> <<n, l, k>>,
               val |-> buffer[<<n, l_offset, s_offset>>] + args.attn_mask[<<l, s>>],
               src |-> <<n, l_offset, s_offset>>,
               tid |-> idx]}

masked_lp_copy(idx, it) ==
    LET buffer_dim12 == it.n_a * it.n_b
        buffer_dim2 == it.n_b
        n == idx \div buffer_dim12
        idx1 == idx - n*buffer_dim12
        l_offset == idx1 \div buffer_dim2
        s_offset == idx1 - l_offset*buffer_dim2
        l == it.l + l_offset
        s == it.s_start + s_offset
        k == s - l + C \div 2
    IN  IF n >= N*H THEN {}
        ELSE IF k < 0 \/ k >= C THEN {}
        ELSE {[cell |-> <<n, l, k>>,
               val |-> buffer[<<n, l_offset, s_offset>>] + args.attn_mask[<<l, s>>],
               src |-> <<n, l_offset, s_offset>>,
               tid |-> idx]}

\* Thread idx of the selection kernel with the plain copy implementation.
lp_copy_shifted(idx, it) ==
    LET buffer_dim12 == it.n_a * it.n_b
        buffer_dim2 == it.n_b
        n == idx \div buffer_dim12
        idx1 == idx - n*buffer_dim12
        l_offset == idx1 \div buffer_dim2
        s_offset == idx1 - l_offset*buffer_dim2
        l == it.l + l_offset
        s == it.s_start + s_offset
        k == s - l + (C - 1) \div 2
    IN  IF n >= N*H THEN {}
        ELSE IF k < 0 \/ k >= C THEN {}
        ELSE {[cell |-> <<n, l, k>>,
               val |-> buffer[<<n, l_offset, s_offset>>],
               src |-> <<n, l_offset, s_offset>>,
               tid |-> idx]}

lp_copy(idx, it) ==
    LET buffer_dim12 == it.n_a * it.n_b
        buffer_dim2 == it.n_b
        n == idx \div buffer_dim12
        idx1 == idx - n*buffer_dim12
        l_offset == idx1 \div buffer_dim2
        s_offset == idx1 - l_offset*buffer_dim2
        l == it.l + l_offset
        s == it.s_start + s_offset
        k == s - l + C \div 2
    IN  IF n >= N*H THEN {}
        ELSE IF k < 0 \/ k >= C THEN {}
        ELSE {[cell |-> <<n, l, k>>,
               val |-> buffer[<<n, l_offset, s_offset>>],
               src |-> <<n, l_offset, s_offset>>,
               tid |-> idx]}

\* sliding_dot_copy_kernel<<<blocks, threads>>>: every thread
\* idx = blockIdx.x*blockDim.x + threadIdx.x of the launch runs the copy
\* implementation; the writes of the whole launch.
sliding_dot_copy_kernel(it) ==
    UNION { IF it.policy = "masked_lp_copy"
            THEN masked_lp_copy(idx, it)
            ELSE lp_copy(idx, it)
            : idx \in 0..(Cardinality(it.pending)*threads - 1) }

\* ---------------------------------------------------------- tiled kernels
\* template <int LB=32, int KB=32, int EB=32>
LB == TILE
KB == TILE
EB == TILE

\* The threads of one block: const int threads = 32*32.
Threads == 0..(TILE*TILE - 1)

\* Offsets into s_factors (LB x KB) and s_values (2*LB x EB).
FactorSlot(row, col) == row*KB + col
ValueSlot(row, col) == row*EB + col
FactorSlots == 0..(LB*KB - 1)
ValueSlots == 0..(2*LB*EB - 1)

\* The decomposition of blockIdx.x by the strides (the same code opens both
\* tiled kernels; lblock is called sblock in the transposed one).
BlockIndex_no_h(b, strides) ==
    LET n == b \div strides.x
        i1 == b - n*strides.x
        h == i1 \div strides.y
        i2 == i1 - h*strides.y
        lblock == i2 \div strides.z
        eblock == i2 - lblock*strides.z
    IN  [n |-> n, h |-> 0, lblock |-> lblock, eblock |-> eblock]

BlockIndex(b, strides) ==
    LET n == b \div strides.x
        i1 == b - n*strides.x
        h == i1 \div strides.y
        i2 == i1 - h*strides.y
        lblock == i2 \div strides.z
        eblock == i2 - lblock*strides.z
    IN  [n |-> n, h |-> h, lblock |-> lblock, eblock |-> eblock]

\* The window chunks of the loop for (int k=0; k<local_context; k+=KB).
Chunks == {k \in 0..(C - 1) : k % KB = 0}

\* Shared memory once every thread of the block has stored: loads[t] holds
\* thread t's three stores, each <<slot, value>>.
SharedFactors(loads) ==
    [i \in FactorSlots |->
        loads[CHOOSE t \in Threads : loads[t].f[1] = i].f[2]]

SharedValues(loads) ==
    [i \in ValueSlots |->
        LET t == CHOOSE u \in Threads : loads[u].v1[1] = i \/ loads[u].v2[1] = i
        IN  IF loads[t].v1[1] = i THEN loads[t].v1[2] ELSE loads[t].v2[2]]

\* local_copy_scaled, "Load the data in shared mem": the stores of thread
\* tid of block bi for window chunk k.
local_copy_scaled_load(it, bi, tid, k) ==
    LET l_local == tid \div EB
        e_local == tid - l_local*EB
        l == bi.lblock*LB + l_local
        e == bi.eblock*EB + e_local
        s1 == l - C \div 2 + k
        s2 == s1 + LB
        scurrent == s1 + e_local
    IN  [f |-> << FactorSlot(l_local, e_local),
                  IF l < L /\ k + e_local < C /\ scurrent >= 0 /\ scurrent < L
                  THEN args[it.a][<<bi.n, bi.h, l, k + e_local>>] ELSE 0 >>,
         v1 |-> << ValueSlot(l_local, e_local),
                   IF e < E /\ s1 >= 0 /\ s1 < L
                   THEN args[it.b][<<bi.n, bi.h, s1, e>>] ELSE 0 >>,
         v2 |-> << ValueSlot(l_local + LB, e_local),
                   IF e < E /\ s2 >= 0 /\ s2 < L
                   THEN args[it.b][<<bi.n, bi.h, s2, e>>] ELSE 0 >>]

\* The dot product reading the rows of s_values from row 0 for every thread
\* (without the thread's row offset l_local).
local_copy_scaled_dot_no_row(sf, sv, tid) ==
    LET l_local == tid \div EB
        e_local == tid - l_local*EB
    IN  SumOver([k_local \in 0..(KB - 1) |->
                    sf[FactorSlot(l_local, k_local)]
                    * sv[ValueSlot(k_local, e_local)]],
                0..(KB - 1))

\* local_copy_scaled, "Do the dot product": result of thread tid.
local_copy_scaled_dot(sf, sv, tid) ==
    LET l_local == tid \div EB
        e_local == tid - l_local*EB
    IN  SumOver([k_local \in 0..(KB - 1) |->
                    sf[FactorSlot(l_local, k_local)]
                    * sv[ValueSlot(k_local + l_local, e_local)]],
                0..(KB - 1))

\* One thread block b of local_copy_scaled: the accumulations
\* output[n][h][l][e] += result it performs, summed over the window chunks.
local_copy_scaled_e_local(it, b) ==
    LET bi == BlockIndex(b, it.strides)
        result == [k \in Chunks |->
            LET loads == [t \in Threads |-> local_copy_scaled_load(it, bi, t, k)]
                sf == SharedFactors(loads)
                sv == SharedValues(loads)
            IN  [t \in Threads |-> local_copy_scaled_dot(sf, sv, t)]]
    IN  IF bi.n > N THEN {}
        ELSE { [cell |-> <<bi.n, bi.h, bi.lblock*LB + (t \div EB),
                           (t - (t \div EB)*EB)>>,
                val |-> SumOver([k \in Chunks |-> result[k][t]], Chunks),
                tid |-> b*LB*EB + t]
               : t \in { u \in Threads :
                           /\ bi.lblock*LB + (u \div EB) < L
                           /\ (u - (u \div EB)*EB) < E } }

local_copy_scaled(it, b) ==
    LET bi == BlockIndex(b, it.strides)
        result == [k \in Chunks |->
            LET loads == [t \in Threads |-> local_copy_scaled_load(it, bi, t, k)]
                sf == SharedFactors(loads)
                sv == SharedValues(loads)
            IN  [t \in Threads |-> local_copy_scaled_dot(sf, sv, t)]]
    IN  IF bi.n > N THEN {}
        ELSE { [cell |-> <<bi.n, bi.h, bi.lblock*LB + (t \div EB),
                           bi.eblock*EB + (t - (t \div EB)*EB)>>,
                val |-> SumOver([k \in Chunks |-> result[k][t]], Chunks),
                tid |-> b*LB*EB + t]
               : t \in { u \in Threads :
                           /\ bi.lblock*LB + (u \div EB) < L
                           /\ bi.eblock*EB + (u - (u \div EB)*EB) < E } }

\* The index policies of the transposed kernel.
IncreasingLK(k, e_local, local_context) == k + e_local
ReverseLK_increasing(k, e_local, local_context) == k + e_local
ReverseLK(k, e_local, local_context) == local_context - k - e_local - 1

lk_policy(policy, k, e_local, local_context) ==
    IF policy = "IncreasingLK"
    THEN IncreasingLK(k, e_local, local_context)
    ELSE ReverseLK(k, e_local, local_context)

\* local_copy_scaled_transpose, "Load the data in shared mem".
local_copy_scaled_transpose_load(it, bi, tid, k) ==
    LET s_local == tid \div EB
        e_local == tid - s_local*EB
        s == bi.lblock*LB + s_local
        e == bi.eblock*EB + e_local
        l == s - (C - 1) \div 2 + k
        l2 == l + LB
        lcurrent == l + e_local
        kcurrent == k + e_local
    IN  [v1 |-> << ValueSlot(s_local, e_local),
                   IF l >= 0 /\ l < L /\ e < E
                   THEN args[it.b][<<bi.n, bi.h, l, e>>] ELSE 0 >>,
         v2 |-> << ValueSlot(s_local + LB, e_local),
                   IF l2 >= 0 /\ l2 < L /\ e < E
                   THEN args[it.b][<<bi.n, bi.h, l2, e>>] ELSE 0 >>,
         f |-> << FactorSlot(s_local, e_local),
                  IF lcurrent >= 0 /\ lcurrent < L /\ kcurrent < C
                  THEN args[it.a][<<bi.n, bi.h, l + e_local,
                                    lk_policy(it.policy, k, e_local, C)>>]
                  ELSE 0 >>]

\* local_copy_scaled_transpose, "Do the dot product".
local_copy_scaled_transpose_dot(sf, sv, tid) ==
    LET s_local == tid \div EB
        e_local == tid - s_local*EB
    IN  SumOver([k_local \in 0..(KB - 1) |->
                    sv[ValueSlot(s_local + k_local, e_local)]
                    * sf[FactorSlot(s_local, k_local)]],
                0..(KB - 1))

\* One thread block b of local_copy_scaled_transpose: the accumulations
\* output[n][h][s][e] += result it performs, summed over the window chunks.
local_copy_scaled_transpose(it, b) ==
    LET bi == BlockIndex(b, it.strides)
        result == [k \in Chunks |->
            LET loads == [t \in Threads |->
                            local_copy_scaled_transpose_load(it, bi, t, k)]
                sf == SharedFactors(loads)
                sv == SharedValues(loads)
            IN  [t \in Threads |-> local_copy_scaled_transpose_dot(sf, sv, t)]]
    IN  IF bi.n > N THEN {}
        ELSE { [cell |-> <<bi.n, bi.h, bi.lblock*LB + (t \div EB),
                           bi.eblock*EB + (t - (t \div EB)*EB)>>,
                val |-> SumOver([k \in Chunks |-> result[k][t]], Chunks),
                tid |-> b*LB*EB + t]
               : t \in { u \in Threads :
                           /\ bi.lblock*LB + (u \div EB) < L
                           /\ bi.eblock*EB + (u - (u \div EB)*EB) < E } }

\* The launch configuration shared by the three callers of the tiled
\* kernels: lblocks = ceildiv(L, 32), eblocks = ceildiv(E, 32),
\* blocks = N*H*lblocks*eblocks, strides(H*lblocks*eblocks, lblocks*eblocks,
\* eblocks).
lblocks == ceildiv(L, TILE)
eblocks == ceildiv(E, TILE)
blocks == N * H * lblocks * eblocks
strides == [x |-> H*lblocks*eblocks, y |-> lblocks*eblocks, z |-> eblocks]

Launch(kind, factors, values, output, policy) ==
    Item(kind, factors, values, output, policy, 0, 0, 0, 0, strides,
         0..(blocks - 1))

\* ------------------------------------------------------ public operations
\* What each operation puts on the stream, in program order.
local_dot_product ==
    sliding_dot("masked_lp_copy", "queries", "keys", "output")

local_dot_backward ==
    << Launch("scaled", "grad", "keys", "grad_queries", "none"),
       Launch("transpose", "grad", "queries", "grad_keys", "IncreasingLK") >>

local_weighted_average ==
    << Launch("scaled", "attention", "values", "output", "none") >>

local_weighted_average_backward ==
    << Launch("transpose", "attention", "grad", "grad_values", "ReverseLK") >>
    \o sliding_dot("lp_copy", "grad", "values", "grad_attention")

Ops == {"local_dot_product", "local_dot_backward",
        "local_weighted_average", "local_weighted_average_backward"}

Program ==
    CASE call.op = "local_dot_product" -> local_dot_product
      [] call.op = "local_dot_backward" -> local_dot_backward
      [] call.op = "local_weighted_average" -> local_weighted_average
      [] call.op = "local_weighted_average_backward" ->
            local_weighted_average_backward
      [] OTHER -> << >>

\* ------------------------------------------------------------------ inputs
\* The tensors a call is made with.  Every output of the four operations is
\* bilinear in two of the inputs: the input both outputs share is a unit
\* tensor (1 in one cell, 0 elsewhere) and the others hold a different value
\* in every cell, so that every output cell shows which input cells reached
\* it.  key_lengths is never read by the kernels and is left out.
OneHot(dom, p) == [c \in dom |-> IF c = p THEN 1 ELSE 0]

Ramp4(d0, d1, d2, d3, base) ==
    [c \in Idx4(d0, d1, d2, d3) |-> base + Flat4(c, d1, d2, d3)]

\* The additive masks drawn: all zero, or a different finite bias per (l, s).
Masks(l) ==
    { [c \in Idx2(l, l) |-> 0],
      [c \in Idx2(l, l) |-> 100 * (1 + c[1]*l + c[2])] }

Inputs(op, n, h, l, e, c) ==
    LET QK == Idx4(n, h, l, e)
        AT == Idx4(n, h, l, c)
    IN  CASE op = "local_dot_product" ->
               { [queries |-> OneHot(QK, p),
                  keys |-> Ramp4(n, h, l, e, 3),
                  attn_mask |-> m] : p \in QK, m \in Masks(l) }
          [] op = "local_dot_backward" ->
               { [queries |-> Ramp4(n, h, l, e, 1),
                  keys |-> Ramp4(n, h, l, e, 3),
                  grad |-> OneHot(AT, p)] : p \in AT }
          [] op = "local_weighted_average" ->
               { [attention |-> OneHot(AT, p),
                  values |-> Ramp4(n, h, l, e, 3)] : p \in AT }
          [] op = "local_weighted_average_backward" ->
               { [attention |-> Ramp4(n, h, l, c, 2),
                  values |-> Ramp4(n, h, l, e, 3),
                  grad |-> OneHot(QK, p)] : p \in QK }

\* The outputs as allocated by the operation: new_full(-infinity) for the
\* forward scores, zeros_like for every other output.
Alloc(op, n, h, l, e, c) ==
    CASE op = "local_dot_product" ->
           [output |-> [x \in Idx4(n, h, l, c) |-> NegInf]]
      [] op = "local_dot_backward" ->
           [grad_queries |-> [x \in Idx4(n, h, l, e) |-> 0],
            grad_keys |-> [x \in Idx4(n, h, l, e) |-> 0]]
      [] op = "local_weighted_average" ->
           [output |-> [x \in Idx4(n, h, l, e) |-> 0]]
      [] op = "local_weighted_average_backward" ->
           [grad_attention |-> [x \in Idx4(n, h, l, c) |-> 0],
            grad_values |-> [x \in Idx4(n, h, l, e) |-> 0]]

UsesSlidingDot(op) ==
    op \in {"local_dot_product", "local_weighted_average_backward"}

\* The block variables rest while a whole call is followed.
BlockIdle ==
    /\ blk = [kernel |-> "none", b |-> 0]
    /\ pc = << >>
    /\ kc = << >>
    /\ arrived = << >>
    /\ smem = << >>
    /\ seen = << >>

\* The state once the operation has extracted the shapes and allocated its
\* outputs and, when it runs sliding_dot, the zeroed scratch buffer.
Init ==
    /\ \E op \in Ops, n \in 1..MaxN, h \in 1..MaxH, l \in 2..MaxL,
          e \in 1..MaxE :
         \E c \in {x \in 2..l : x % 2 = 0} :
            /\ n*h*l*e <= MaxElems
            /\ call = [op |-> op, N |-> n, H |-> h, L |-> l, E |-> e, C |-> c]
            /\ args \in Inputs(op, n, h, l, e, c)
            /\ outs = Alloc(op, n, h, l, e, c)
            /\ buffer = IF UsesSlidingDot(op)
                        THEN [x \in Idx3(n*h, a_blocks, a_blocks + c) |-> 0]
                        ELSE << >>
            /\ bufIter = IF UsesSlidingDot(op)
                         THEN [x \in Idx3(n*h, a_blocks, a_blocks + c) |-> -1]
                         ELSE << >>
            /\ outIter = IF UsesSlidingDot(op)
                         THEN [x \in Idx4(n, h, l, c) |-> {}]
                         ELSE << >>
    /\ writers = [x \in DOMAIN outs |-> [y \in DOMAIN outs[x] |-> {}]]
    /\ issued = 0
    /\ stream = << >>
    /\ BlockIdle

\* ----------------------------------------------------------------- actions
\* The host runs ahead of the device: it puts the next piece of work of the
\* operation on the stream.
HostIssue ==
    /\ issued < Len(Program)
    /\ stream' = Append(stream, [Program[issued + 1] EXCEPT !.id = issued + 1])
    /\ issued' = issued + 1
    /\ UNCHANGED <<call, args, outs, buffer, bufIter, outIter, writers>>
    /\ UNCHANGED blockVars

\* The device runs the matmul at the head of the stream.
DevMatmul ==
    /\ stream # << >>
    /\ Head(stream).kind = "matmul"
    /\ LET it == Head(stream)
       IN  /\ buffer' = matmul_out(it)
           /\ bufIter' = [c \in DOMAIN bufIter |->
                            IF c[2] < it.n_a /\ c[3] < it.n_b
                            THEN it.l ELSE bufIter[c]]
    /\ stream' = Tail(stream)
    /\ UNCHANGED <<call, args, outs, issued, outIter, writers>>
    /\ UNCHANGED blockVars

\* The device runs the selection kernel at the head of the stream.  A cell
\* that several threads write with different values keeps any one of them.
DevCopy ==
    /\ stream # << >>
    /\ Head(stream).kind = "copy"
    /\ \E W \in {sliding_dot_copy_kernel(Head(stream))} :
       LET it == Head(stream)
           at(w) == View3(w.cell[1], w.cell[2], w.cell[3], H)
           cells == {at(w) : w \in W}
           cand(c) == {w.val : w \in {x \in W : at(x) = c}}
           contended == {c \in cells : Cardinality(cand(c)) > 1}
       IN  /\ \E g \in {f \in [contended -> {w.val : w \in W}] :
                          \A c \in contended : f[c] \in cand(c)} :
                outs' = [outs EXCEPT ![it.dst] =
                           [c \in DOMAIN outs[it.dst] |->
                              IF c \notin cells THEN outs[it.dst][c]
                              ELSE IF c \in contended THEN g[c]
                              ELSE CHOOSE v \in cand(c) : TRUE]]
           /\ writers' = [writers EXCEPT ![it.dst] =
                            [c \in DOMAIN writers[it.dst] |->
                               writers[it.dst][c] \cup
                               {<<it.id, w.tid>> : w \in {x \in W : at(x) = c}}]]
           /\ outIter' = [c \in DOMAIN outIter |->
                            outIter[c] \cup
                            {bufIter[w.src] : w \in {x \in W : at(x) = c}}]
    /\ stream' = Tail(stream)
    /\ UNCHANGED <<call, args, buffer, bufIter, issued>>
    /\ UNCHANGED blockVars

\* output[n][h][l][e] += result, for every accumulation W of a thread block.
Accumulate(T, W) ==
    [c \in DOMAIN T |->
        T[c] + SumOver([w \in W |-> w.val], {x \in W : x.cell = c})]

\* The device runs one of the thread blocks of the tiled kernel at the head
\* of the stream that have yet to run; the kernel retires with its last
\* block.
DevBlock ==
    /\ stream # << >>
    /\ Head(stream).kind \in {"scaled", "transpose"}
    /\ \E b \in Head(stream).pending :
       \E W \in {IF Head(stream).kind = "scaled"
                 THEN local_copy_scaled(Head(stream), b)
                 ELSE local_copy_scaled_transpose(Head(stream), b)} :
         LET it == Head(stream)
         IN  /\ outs' = [outs EXCEPT ![it.dst] = Accumulate(outs[it.dst], W)]
             /\ writers' = [writers EXCEPT ![it.dst] =
                              [c \in DOMAIN writers[it.dst] |->
                                 writers[it.dst][c] \cup
                                 {<<it.id, w.tid>> : w \in {x \in W : x.cell = c}}]]
             /\ stream' = IF it.pending = {b}
                          THEN Tail(stream)
                          ELSE [stream EXCEPT ![1].pending = @ \ {b}]
    /\ UNCHANGED <<call, args, buffer, bufIter, issued, outIter>>
    /\ UNCHANGED blockVars

Next == HostIssue \/ DevMatmul \/ DevCopy \/ DevBlock

Spec == Init /\ [][Next]_vars

\* The call has returned and the device has retired all its work.
Done == issued = Len(Program) /\ stream = << >>

\* ------------------------------------------------------------- references
\* Key position of band index k of query position l.
KeyPos(l, k) == l - C \div 2 + k

InSeq(s) == 0 <= s /\ s < L

\* sum over e of A[n,h,l,e] * B[n,h,s,e]
RowDot(A, B, n, h, l, s) ==
    SumOver([e \in 0..(E - 1) |-> A[<<n, h, l, e>>] * B[<<n, h, s, e>>]],
            0..(E - 1))

\* sum over the band cells k of row l whose key is in the sequence of
\* F[n,h,l,k] * V[n,h,l-C/2+k,e]
BandGather(F, V, n, h, l, e) ==
    LET ks == {k \in 0..(C - 1) : InSeq(KeyPos(l, k))}
    IN  SumOver([k \in ks |-> F[<<n, h, l, k>>] * V[<<n, h, KeyPos(l, k), e>>]],
                ks)

\* sum over the pairs (l, k) with l - C/2 + k = s of F[n,h,l,k] * V[n,h,l,e]
BandScatter(F, V, n, h, s, e) ==
    LET lk == {p \in (0..(L - 1)) \X (0..(C - 1)) : KeyPos(p[1], p[2]) = s}
    IN  SumOver([p \in lk |-> F[<<n, h, p[1], p[2]>>] * V[<<n, h, p[1], e>>]],
                lk)

Abs(x) == IF x < 0 THEN -x ELSE x

C2_GradKeysAdjoint ==
    (call.op = "local_dot_backward" /\ Done) =>
        \A c \in Idx4(N, H, L, E) :
            outs.grad_keys[c] =
                BandScatter(args.grad, args.queries, c[1], c[2], c[3], c[4])

\* C3: once local_dot_product has run with a finite mask, the banded output
\* holds a finite entry for the pair (l,s) exactly when |l-s| < C/2, and the
\* entry is then the dense score Q[l].K[s] plus the mask.
C3_BandIsCentered ==
    (call.op = "local_dot_product" /\ Done) =>
        \A n \in 0..(N - 1), h \in 0..(H - 1), l \in 0..(L - 1), s \in 0..(L - 1) :
            LET k == s - l + C \div 2
                held == /\ 0 <= k /\ k < C
                        /\ outs.output[<<n, h, l, k>>] # NegInf
            IN  /\ held <=> (Abs(l - s) < C \div 2)
                /\ held => outs.output[<<n, h, l, k>>] =
                             RowDot(args.queries, args.keys, n, h, l, s)
                             + args.attn_mask[<<l, s>>]

\* C4: once local_weighted_average has run, output[n,h,l,e] is the sum over
\* the band cells k of row l whose key l - C/2 + k is in the sequence of
\* attn[n,h,l,k]*V[n,h,l-C/2+k,e]; a band cell whose key is outside the
\* sequence contributes nothing whatever attn holds there.
C4_WeightedAverage ==
    (call.op = "local_weighted_average" /\ Done) =>
        \A c \in Idx4(N, H, L, E) :
            outs.output[c] =
                BandGather(args.attention, args.values, c[1], c[2], c[3], c[4])

\* A window wider than one window chunk over a feature size that is no
\* multiple of the tile side: a weight of a later chunk reached the output.
C4_Witness ==
    /\ call.op = "local_weighted_average" /\ Done
    /\ C > KB /\ E % EB # 0
    /\ \E p \in Idx4(N, H, L, C) :
         /\ args.attention[p] = 1 /\ p[4] >= KB
         /\ \E e \in 0..(E - 1) : outs.output[<<p[1], p[2], p[3], e>>] # 0

\* C5: once local_weighted_average_backward has run, grad_V[n,h,s,e] is the
\* sum over the pairs (l,k) with l - C/2 + k = s of
\* attn[n,h,l,k]*grad_output[n,h,l,e].
C5_GradValuesAdjoint ==
    (call.op = "local_weighted_average_backward" /\ Done) =>
        \A c \in Idx4(N, H, L, E) :
            outs.grad_values[c] =
                BandScatter(args.attention, args.grad, c[1], c[2], c[3], c[4])

\* The gradient of a row of the second tile of rows reached a value more
\* than one window chunk away.
C5_Witness ==
    /\ call.op = "local_weighted_average_backward" /\ Done
    /\ C > KB
    /\ \E p \in Idx4(N, H, L, E) :
         /\ args.grad[p] = 1 /\ p[3] >= LB
         /\ \E s \in 0..(L - 1) :
              Abs(s - p[3]) >= KB /\ outs.grad_values[<<p[1], p[2], s, p[4]>>] # 0

C7_GradQueries ==
    (call.op = "local_dot_backward" /\ Done) =>
        \A c \in Idx4(N, H, L, E) :
            outs.grad_queries[c] =
                BandGather(args.grad, args.keys, c[1], c[2], c[3], c[4])

\* The gradient of a score whose key is outside the sequence left grad_Q
\* all zero, in a call with more rows than one tile.
C7_Witness ==
    /\ call.op = "local_dot_backward" /\ Done
    /\ L > LB
    /\ \E p \in Idx4(N, H, L, C) :
         /\ args.grad[p] = 1 /\ ~InSeq(KeyPos(p[3], p[4]))
    /\ \A c \in Idx4(N, H, L, E) : outs.grad_queries[c] = 0

\* C9: the selection kernel of an iteration of sliding_dot finds in the
\* scratch buffer what the matmul of the same iteration wrote, and every
\* value copied into out[n,l,k] comes from the matmul of the chunk that
\* contains l.
C9_ScratchInOrder ==
    /\ (stream # << >> /\ Head(stream).kind = "copy") =>
          \A c \in DOMAIN bufIter :
              (c[2] < Head(stream).n_a /\ c[3] < Head(stream).n_b) =>
                  bufIter[c] = Head(stream).l
    /\ \A c \in DOMAIN outIter :
          outIter[c] \subseteq {a_blocks * (c[3] \div a_blocks)}

\* The scratch buffer has been reused: the rows of the first chunk have been
\* copied out and the selection kernel of a later chunk is next on the
\* stream.
C9_Witness ==
    /\ stream # << >>
    /\ Head(stream).kind = "copy"
    /\ Head(stream).l >= a_blocks
    /\ \E c \in DOMAIN outIter : c[3] < a_blocks /\ outIter[c] = {0}

RECURSIVE RunBlocksFrom(_, _, _)
\* The output of a tiled kernel whose blocks b, b+1, ... run in index order.
RunBlocksFrom(it, T, b) ==
    IF b >= blocks THEN T
    ELSE RunBlocksFrom(it,
                       Accumulate(T, IF it.kind = "scaled"
                                     THEN local_copy_scaled(it, b)
                                     ELSE local_copy_scaled_transpose(it, b)),
                       b + 1)

\* C10: no output cell is written by two threads: every cell a tiled kernel
\* accumulates into has exactly one (block, thread) that does so, every
\* banded cell of sliding_dot is written by at most one thread of at most
\* one launch, and the output of a tiled kernel is the one its blocks give
\* in index order, whatever order they ran in.
C10_SingleWriter ==
    /\ \A x \in DOMAIN writers : \A c \in DOMAIN writers[x] :
          Cardinality(writers[x][c]) <= 1
    /\ Done =>
          \A i \in 1..Len(Program) :
              Program[i].kind \in {"scaled", "transpose"} =>
                  /\ \A c \in DOMAIN writers[Program[i].dst] :
                        Cardinality(writers[Program[i].dst][c]) = 1
                  /\ outs[Program[i].dst] =
                        RunBlocksFrom(Program[i],
                                      [c \in DOMAIN outs[Program[i].dst] |-> 0],
                                      0)

\* A tiled kernel of several blocks over batch and heads has run its blocks
\* in an order other than the index order, and a banded output of two
\* launches has been written.
C10_Witness ==
    \/ /\ stream # << >>
       /\ Head(stream).kind \in {"scaled", "transpose"}
       /\ H > 1 /\ blocks > 2
       /\ 0 \in Head(stream).pending
       /\ (blocks - 1) \notin Head(stream).pending
       /\ \E c \in DOMAIN writers[Head(stream).dst] :
             writers[Head(stream).dst][c] # {}
    \/ /\ Done /\ call.op = "local_dot_product" /\ L > a_blocks
       /\ \E c \in DOMAIN writers.output, d \in DOMAIN writers.output :
             \E v \in writers.output[c], w \in writers.output[d] : v[1] # w[1]

\* ------------------------------------------------ one thread block (SpecBlock)
\* The slots thread tid stores in "Load the data in shared mem" and reads in
\* "Do the dot product" (the same in both tiled kernels).
StoreSlots(tid) ==
    LET l_local == tid \div EB
        e_local == tid - l_local*EB
    IN  { <<"s_factors", FactorSlot(l_local, e_local)>>,
          <<"s_values", ValueSlot(l_local, e_local)>>,
          <<"s_values", ValueSlot(l_local + LB, e_local)>> }

ReadSlots(tid) ==
    LET l_local == tid \div EB
        e_local == tid - l_local*EB
    IN  UNION { { <<"s_factors", FactorSlot(l_local, k_local)>>,
                  <<"s_values", ValueSlot(k_local + l_local, e_local)>> }
                : k_local \in 0..(KB - 1) }

SharedSlots ==
    ({"s_factors"} \X FactorSlots) \cup ({"s_values"} \X ValueSlots)

\* __syncthreads(): a thread leaves its m-th barrier once every thread of
\* the block has reached its m-th barrier.
BarrierOpen_none(t) == TRUE

BarrierOpen(t) == \A u \in Threads : arrived[u] >= arrived[t]

\* The host variables rest while one thread block is followed; call holds
\* the shapes of the launch, the smallest one for each window size (the
\* barriers a thread reaches depend on local_context only).
InitBlock ==
    /\ \E kernel \in {"scaled", "transpose"} :
         \E c \in {x \in 2..MaxL : x % 2 = 0} :
            /\ call = [op |-> kernel, N |-> 1, H |-> 1, L |-> c, E |-> 1, C |-> c]
            /\ \E b \in 0..(ceildiv(c, TILE) * ceildiv(1, TILE) - 1) :
                 blk = [kernel |-> kernel, b |-> b]
    /\ args = << >> /\ outs = << >> /\ buffer = << >> /\ bufIter = << >>
    /\ outIter = << >> /\ writers = << >> /\ issued = 0 /\ stream = << >>
    /\ pc = [t \in Threads |-> "start"]
    /\ kc = [t \in Threads |-> -1]
    /\ arrived = [t \in Threads |-> 0]
    /\ smem = [sl \in SharedSlots |-> -1]
    /\ seen = [t \in Threads |-> {}]

\* if (n > factors.size(0)) return; then the first test of the loop
\* for (int k=0; k<local_context; k+=KB).
Enter(t) ==
    /\ pc[t] = "start"
    /\ IF BlockIndex(blk.b, strides).n > N \/ ~(0 < C)
       THEN pc' = [pc EXCEPT ![t] = "done"] /\ kc' = kc
       ELSE pc' = [pc EXCEPT ![t] = "load"] /\ kc' = [kc EXCEPT ![t] = 0]
    /\ UNCHANGED <<blk, arrived, smem, seen>>
    /\ UNCHANGED hostVars

\* "Load the data in shared mem": the three stores of the thread for chunk
\* k, after which it reaches the first __syncthreads().
Load(t) ==
    /\ pc[t] = "load"
    /\ smem' = [sl \in SharedSlots |->
                  IF sl \in StoreSlots(t) THEN kc[t] ELSE smem[sl]]
    /\ pc' = [pc EXCEPT ![t] = "sync1"]
    /\ arrived' = [arrived EXCEPT ![t] = @ + 1]
    /\ UNCHANGED <<blk, kc, seen>>
    /\ UNCHANGED hostVars

\* The thread leaves the first __syncthreads().
Sync1(t) ==
    /\ pc[t] = "sync1"
    /\ BarrierOpen(t)
    /\ pc' = [pc EXCEPT ![t] = "dot"]
    /\ UNCHANGED <<blk, kc, arrived, smem, seen>>
    /\ UNCHANGED hostVars

\* "Do the dot product": the reads of the thread for chunk k, after which
\* it reaches the second __syncthreads().
DotProduct(t) ==
    /\ pc[t] = "dot"
    /\ seen' = [seen EXCEPT ![t] = @ \cup {<<kc[t], smem[sl]>> : sl \in ReadSlots(t)}]
    /\ pc' = [pc EXCEPT ![t] = "sync2"]
    /\ arrived' = [arrived EXCEPT ![t] = @ + 1]
    /\ UNCHANGED <<blk, kc, smem>>
    /\ UNCHANGED hostVars

\* The thread leaves the second __syncthreads(): k += KB and the test of
\* the loop.
Sync2(t) ==
    /\ pc[t] = "sync2"
    /\ BarrierOpen(t)
    /\ kc' = [kc EXCEPT ![t] = @ + KB]
    /\ pc' = [pc EXCEPT ![t] = IF kc[t] + KB < C THEN "load" ELSE "done"]
    /\ UNCHANGED <<blk, arrived, smem, seen>>
    /\ UNCHANGED hostVars

NextBlock ==
    \E t \in Threads :
        Enter(t) \/ Load(t) \/ Sync1(t) \/ DotProduct(t) \/ Sync2(t)

SpecBlock == InitBlock /\ [][NextBlock]_vars

\* C8: in a thread block of a tiled kernel, under every interleaving, every
\* read of a shared slot in the dot product of chunk k finds the value
\* stored for chunk k; no slot a thread has yet to read for its chunk holds
\* a store of a later chunk; and whenever a thread has not finished, some
\* thread can take a step (no thread waits at a barrier for ever).
C8_BarriersOrderTiles ==
    /\ \A t \in Threads : \A p \in seen[t] : p[2] = p[1]
    /\ \A t \in Threads :
          pc[t] \in {"load", "sync1", "dot"} =>
              \A sl \in ReadSlots(t) : smem[sl] <= kc[t]
    /\ \A t \in Threads :
          pc[t] = "dot" => \A sl \in ReadSlots(t) : smem[sl] = kc[t]
    /\ (\E t \in Threads : pc[t] # "done") =>
          \E t \in Threads :
              \/ pc[t] \in {"start", "load", "dot"}
              \/ pc[t] \in {"sync1", "sync2"} /\ BarrierOpen(t)

\* In the second window chunk one thread has read its tiles and waits at
\* the second barrier while another has still to read.
C8_Witness ==
    \E t \in Threads, u \in Threads :
        /\ pc[t] = "sync2" /\ kc[t] = KB /\ seen[t] = {<<0, 0>>, <<KB, KB>>}
        /\ pc[u] = "sync1" /\ kc[u] = KB
====
